---------------------------- MODULE Spec2Model ----------------------------
(***************************************************************************)
(* State-machine model of the acerhdf fan driver (src/acerhdf.c): the      *)
(* module's static variables, the thermal-zone and cooling-device          *)
(* callbacks, the suspend hook, the sysfs-writable parameters, and module  *)
(* init / exit.                                                            *)
(*                                                                         *)
(* Every callback is one atomic action, and the host delivers callbacks    *)
(* only between the return of acerhdf_init and the call of acerhdf_exit;   *)
(* SpecExit alone takes acerhdf_exit in its two steps and lets the control *)
(* loop run between them, and SpecRace alone takes the control-loop tick   *)
(* in three steps and lets set_mode run between them: the driver holds no  *)
(* lock in either.                                                         *)
(* The host's own functions (thermal_zone_device_update, the register and  *)
(* unregister calls) are opaque: they change no variable of the driver.    *)
(* An EC access may fail at every call; a failed ec_read leaves its        *)
(* destination untouched, and the result of ec_write is never looked at.   *)
(*                                                                         *)
(* `last' is a history variable: the record of the most recent call (which *)
(* entry point, its argument, the mode on entry, its return value, its     *)
(* output, the number of EC reads and the fan-register writes it issued,   *)
(* and whether any of its EC accesses failed).  `trace' is a history       *)
(* variable too: the outcome of every KERNEL-mode control-loop tick since  *)
(* init (the temperature read, or -1 for a tick that fell back).  `regs'   *)
(* is the third: the calls the driver made into the host's driver core and *)
(* thermal core to register, allocate, release and unregister its objects. *)
(***************************************************************************)
EXTENDS Integers, Sequences, FiniteSets, TLC

VARIABLES
    phase,           \* "loaded" | "running" | "failed" | "exiting" | "exited"
    kernelmode,      \* static int kernelmode            (line 112)
    interval,        \* static unsigned int interval     (line 115)
    fanon,           \* static unsigned int fanon        (line 116)
    fanoff,          \* static unsigned int fanoff       (line 117)
    samples,         \* static int samples[10]           (line 119)
    current_sample,  \* static int current_sample        (line 120)
    fanstate,        \* static unsigned int fanstate     (line 125)
    prev_interval,   \* static unsigned int prev_interval(line 128)
    list_supported,  \* static unsigned int list_supported (line 124)
    force_bios,      \* static char force_bios[16]      (line 126)
    force_product,   \* static char force_product[16]   (line 127)
    ctrl_cfg,        \* static struct ctrl_settings ctrl_cfg (line 190)
    thz_dev,         \* thz_dev != NULL                  (line 129)
    cl_dev,          \* cl_dev != NULL                   (line 130)
    polling_delay,   \* thz_dev->polling_delay
    inflight,        \* the control-loop tick that is under way, if any
    regs,            \* history: the host's register / unregister calls
    last,            \* history: the most recent call
    trace            \* history: KERNEL-mode tick outcomes since init

vars == << phase, kernelmode, interval, fanon, fanoff, samples,
           current_sample, fanstate, prev_interval, list_supported,
           force_bios, force_product, ctrl_cfg, thz_dev, cl_dev,
           polling_delay, inflight, regs, last, trace >>

\* what only acerhdf_init and acerhdf_exit read or change
load_vars == << list_supported, force_bios, force_product, ctrl_cfg, regs >>

----------------------------------------------------------------------------
(* Program constants *)

TEMPERATURE_SAMPLES == 10
MIN_FAN_SPEED == 4
ACERHDF_TEMP_CRIT == 89
ACERHDF_FAN_AUTO == 1
ACERHDF_MAX_FANON == 80000
ACERHDF_MAX_INTERVAL == 15
BIOS_FAN_STATE == 5
MAX_STATE == 11
EINVAL == 22
ENOMEM == 12
ECANCELED == 125
U8_MAX == 255

THERMAL_DEVICE_DISABLED == "DISABLED"
THERMAL_DEVICE_ENABLED  == "ENABLED"

----------------------------------------------------------------------------
(* Bounds of the model *)

\* KERNEL-mode ticks explored per behaviour under Spec
MaxTicks == 3
\* KERNEL-mode ticks explored per behaviour under SpecRing
MaxRingTicks == 11
\* KERNEL-mode ticks explored per behaviour under SpecSched
MaxSchedTicks == 10
\* KERNEL-mode ticks explored per behaviour under SpecInit
MaxInitTicks == 2
\* KERNEL-mode ticks explored per behaviour under SpecCrit
MaxCritTicks == 4
\* KERNEL-mode ticks explored per behaviour under SpecExit
MaxExitTicks == 3
\* KERNEL-mode ticks explored per behaviour under SpecRace
MaxRaceTicks == 3

\* EC temperature readings (a u8 register) fed to the callbacks under Spec
TempVals == {70}
\* readings fed to the control loop under SpecRing
RingTemps == {70, U8_MAX}
\* readings fed to the control loop under SpecSched: every value of the u8
SchedTemps == 0 .. U8_MAX
\* values a user writes to /sys/module/acerhdf/parameters/*
UserIntervals == {1, ACERHDF_MAX_INTERVAL, ACERHDF_MAX_INTERVAL + 1}
UserFanons == {60, ACERHDF_MAX_FANON + 1}
UserFanoffs == {40}
\* governor-requested states handed to set_cur_state
ReqStates == {0, MAX_STATE}
\* trip indices the host asks about
TripIndices == {0, 1, 2}

----------------------------------------------------------------------------
(* Strings are sequences of characters: the identity strings of the table, *)
(* of the DMI and of the force_* parameters                                 *)

STR_EMPTY == << >>
STR_ACER == << "A", "c", "e", "r" >>
STR_ACER_INC == << "A", "c", "e", "r", " ", "I", "n", "c", "." >>
STR_ACE == << "A", "c", "e" >>
STR_DELL == << "D", "e", "l", "l" >>
STR_PH517 ==
    << "P", "r", "e", "d", "a", "t", "o", "r", " ",
       "P", "H", "5", "1", "7", "-", "5", "1" >>
STR_PH517_LONG ==
    << "P", "r", "e", "d", "a", "t", "o", "r", " ",
       "P", "H", "5", "1", "7", "-", "5", "1", " ", "G" >>
STR_PH517_CUT ==
    << "P", "r", "e", "d", "a", "t", "o", "r", " ",
       "P", "H", "5", "1", "7", "-" >>
STR_V106 == << "V", "1", ".", "0", "6" >>
STR_V106_LONG == << "V", "1", ".", "0", "6", ".", "2" >>
STR_V105 == << "V", "1", ".", "0", "5" >>

\* lines 193-200: the table, its last row the terminator with an empty vendor
bios_tbl ==
    << [vendor |-> STR_ACER, product |-> STR_PH517, version |-> STR_V106,
        fanreg |-> 79, tempreg |-> 88,
        cmd |-> [cmd_off |-> 20, cmd_auto |-> 4], mcmd_enable |-> 1],
       [vendor |-> STR_EMPTY, product |-> STR_EMPTY, version |-> STR_EMPTY,
        fanreg |-> 0, tempreg |-> 0,
        cmd |-> [cmd_off |-> 0, cmd_auto |-> 0], mcmd_enable |-> 0] >>

\* ctrl_cfg before acerhdf_check_hardware fills it: zero-initialised
CTRL_CFG_ZERO ==
    [fanreg |-> 0, tempreg |-> 0, cmd |-> [cmd_off |-> 0, cmd_auto |-> 0],
     mcmd_enable |-> 0]

\* what dmi_get_system_info reports, when it reports a string at all
DmiVendors == {STR_ACER, STR_ACER_INC, STR_ACE, STR_DELL}
DmiProducts == {STR_PH517, STR_PH517_LONG, STR_PH517_CUT}
DmiVersions == {STR_V106, STR_V106_LONG, STR_V105}
\* force_bios and force_product hold at most 15 characters (char[16], lines
\* 126-127 and 145-147): no force_product can hold the product of the table
ForceBiosVals == {STR_EMPTY, STR_V106, STR_V105}
ForceProductVals == {STR_EMPTY, STR_PH517_CUT}
ListSupportedVals == {0, 1}
\* where the host makes acerhdf_init fail, if init gets that far: a DMI
\* string that is NULL, platform_driver_register, platform_device_alloc,
\* platform_device_add, thermal_cooling_device_register,
\* thermal_zone_device_register, a zone that came with another governor
InitFailPoints ==
    {"none", "dmi", "driver", "alloc", "add", "cooling", "zone", "governor"}

----------------------------------------------------------------------------
(* Helpers *)

Ring == 0 .. (TEMPERATURE_SAMPLES - 1)

ZeroRing == [i \in Ring |-> 0]

RECURSIVE SumTo(_, _)
\* samples[0] + ... + samples[n-1]: the loop of lines 442-444
SumTo(s, n) == IF n = 0 THEN 0 ELSE s[n - 1] + SumTo(s, n - 1)

\* the record kept in `last'
Call(op, arg, km, ret, out, reads, writes, ecfail) ==
    [op |-> op, arg |-> arg, kmode |-> km, ret |-> ret, out |-> out,
     reads |-> reads, writes |-> writes, ecfail |-> ecfail]

\* `inflight' while no tick is under way.  A tick under way has pc "read"
\* (it has passed the test of line 429) or "write" (it has read the EC and
\* computed cur_temp and `new', the state it is about to write); state is
\* its argument and kmode the value of kernelmode it was entered with.
NO_TICK ==
    [pc |-> "idle", state |-> 0, kmode |-> 0, cur_temp |-> 0, new |-> 0]

\* a call that produces no value leaves "out" empty
NoOut == << >>

\* interval * 1000 in unsigned int, stored to the int polling_delay.  Every
\* interval of the model is below 2^31 / 1000, where the product does not wrap.
Mul1000(i) == i * 1000

\* the difference taken the wrong way round
SignedDiff_swapped(a, b) == b - a

\* *temp = fanon - fanoff: the unsigned 32-bit difference stored to an int.
\* For operands below 2^31 (all of the model's) that int is a - b.
SignedDiff(a, b) == a - b

----------------------------------------------------------------------------
(* Pieces of the callbacks *)

\* clamp_fanon comparing against the limit with the operands swapped
clamp_fanon_swapped(f) == IF ACERHDF_MAX_FANON > f THEN ACERHDF_MAX_FANON ELSE f

\* lines 242-246: fanon is forced down to ACERHDF_MAX_FANON
clamp_fanon(f) == IF f > ACERHDF_MAX_FANON THEN ACERHDF_MAX_FANON ELSE f

\* clamp_interval with the clamp left out
clamp_interval_unclamped(i) == i

\* lines 249-253: interval is forced down to ACERHDF_MAX_INTERVAL
clamp_interval(i) == IF i > ACERHDF_MAX_INTERVAL THEN ACERHDF_MAX_INTERVAL ELSE i

\* interval_changed without the kernelmode test
interval_changed_any_mode == prev_interval # interval

\* line 248: the guard of the interval branch of acerhdf_check_param
interval_changed == kernelmode # 0 /\ prev_interval # interval

\* acerhdf_check_param: the values of fanon, interval, polling_delay and
\* prev_interval when it returns
acerhdf_check_param ==
    LET i == clamp_interval(interval)
    IN  [fanon         |-> clamp_fanon(fanon),
         interval      |-> IF interval_changed THEN i ELSE interval,
         polling_delay |-> IF interval_changed THEN Mul1000(i) ELSE polling_delay,
         prev_interval |-> IF interval_changed THEN i ELSE prev_interval]

\* lines 309-310: if (thz_dev) thz_dev->polling_delay = 0
revert_polling_delay == IF thz_dev THEN 0 ELSE polling_delay

\* acerhdf_revert_to_bios_mode handing the fan back with ACERHDF_FAN_AUTO
\* instead of the literal 5
acerhdf_revert_to_bios_mode_auto ==
    [fanstate      |-> ACERHDF_FAN_AUTO,
     writes        |-> << ACERHDF_FAN_AUTO >>,
     kernelmode    |-> 0,
     polling_delay |-> revert_polling_delay]

\* acerhdf_revert_to_bios_mode: acerhdf_change_fanstate(5) sets fanstate and
\* writes 5 to the fan register; kernelmode = 0; polling_delay = 0
acerhdf_revert_to_bios_mode ==
    [fanstate      |-> BIOS_FAN_STATE,
     writes        |-> << BIOS_FAN_STATE >>,
     kernelmode    |-> 0,
     polling_delay |-> revert_polling_delay]

\* acerhdf_enable_kernelmode taking the delay from prev_interval
acerhdf_enable_kernelmode_prev ==
    [kernelmode |-> 1, polling_delay |-> Mul1000(prev_interval)]

\* acerhdf_enable_kernelmode: kernelmode = 1; polling_delay = interval * 1000;
\* thermal_zone_device_update() is the host's and changes nothing here
acerhdf_enable_kernelmode ==
    [kernelmode |-> 1, polling_delay |-> Mul1000(interval)]

\* tick_is_noop with the mode test left out
tick_is_noop_never == FALSE

\* line 429: if (!kernelmode) return 0
tick_is_noop == kernelmode = 0

\* next_sample wrapping one slot too late
next_sample_late(c) == IF c + 1 > TEMPERATURE_SAMPLES THEN 0 ELSE c + 1

\* lines 433-436: current_sample++, wrapped to 0 past the last slot
next_sample(c) == IF c + 1 > TEMPERATURE_SAMPLES - 1 THEN 0 ELSE c + 1

\* smoothed with the summing loop stopping one slot early
smoothed_short(s) == SumTo(s, TEMPERATURE_SAMPLES - 1) \div TEMPERATURE_SAMPLES

\* lines 441-445: cur_temp = (samples[0] + ... + samples[9]) / 10
smoothed(s) == SumTo(s, TEMPERATURE_SAMPLES) \div TEMPERATURE_SAMPLES

\* lines 457-475: the hardcoded fan table
fan_table(t) ==
    IF t < 40 THEN 3
    ELSE IF t < 45 THEN 4
    ELSE IF t < 48 THEN 5
    ELSE IF t < 50 THEN 6
    ELSE IF t < 55 THEN 7
    ELSE IF t < 60 THEN 8
    ELSE IF t < 65 THEN 9
    ELSE IF t < 70 THEN 10
    ELSE MAX_STATE

\* min_clamp with the clamp left out
min_clamp_none(s) == s

\* lines 476-478: if (state < MIN_FAN_SPEED) state = MIN_FAN_SPEED
min_clamp(s) == IF s < MIN_FAN_SPEED THEN MIN_FAN_SPEED ELSE s

\* lines 457-478: the state the control loop writes for smoothed temperature t
fan_schedule(t) == min_clamp(fan_table(t))

----------------------------------------------------------------------------
(* Initial state: the module is loaded with its parameters, acerhdf_init   *)
(* has not run.  kernelmode and interval are given at load time, fanon    *)
(* and fanoff have their defaults (lines 116-117); the other statics are   *)
(* zero-initialised, fanstate is ACERHDF_FAN_AUTO.                         *)

InitStatics ==
    /\ phase = "loaded"
    /\ kernelmode \in {0, 1}
    /\ interval \in UserIntervals
    /\ fanon = 30
    /\ fanoff = 53000
    /\ samples = ZeroRing
    /\ current_sample = 0
    /\ fanstate = ACERHDF_FAN_AUTO
    /\ prev_interval = 0
    /\ thz_dev = FALSE
    /\ cl_dev = FALSE
    /\ polling_delay = 0
    /\ ctrl_cfg = CTRL_CFG_ZERO
    /\ inflight = NO_TICK
    /\ regs = << >>
    /\ last = Call("load", NoOut, kernelmode, 0, NoOut, 0, << >>, FALSE)
    /\ trace = << >>

\* loaded without list_supported, force_bios and force_product
Init ==
    /\ InitStatics
    /\ list_supported = 0
    /\ force_bios = STR_EMPTY
    /\ force_product = STR_EMPTY

\* loaded with any of list_supported, force_bios and force_product
InitLoad ==
    /\ InitStatics
    /\ list_supported \in ListSupportedVals
    /\ force_bios \in ForceBiosVals
    /\ force_product \in ForceProductVals

----------------------------------------------------------------------------
(* Module init and exit *)

\* str_starts_with demanding the whole string to be equal
str_starts_with_exact(str, start) == str = start

\* lines 529-540: str is at least as long as start and begins with it
str_starts_with(str, start) ==
    /\ Len(str) >= Len(start)
    /\ \A i \in 1 .. Len(start) : str[i] = start[i]

RECURSIVE find_bios(_, _, _, _)
\* lines 590-601: the first row from row i on, before the terminator, whose
\* three strings the identity starts with; 0 when there is none (!found)
find_bios(vendor, product, version, i) ==
    IF bios_tbl[i].vendor = STR_EMPTY THEN 0
    ELSE IF /\ str_starts_with(vendor, bios_tbl[i].vendor)
            /\ str_starts_with(product, bios_tbl[i].product)
            /\ str_starts_with(version, bios_tbl[i].version)
         THEN i
         ELSE find_bios(vendor, product, version, i + 1)

\* forced_kernelmode leaving the mode as it was loaded
forced_kernelmode_kept(km) == km

\* lines 571-581: a forced version or product sets kernelmode = 0
forced_kernelmode(km) ==
    IF force_bios # STR_EMPTY \/ force_product # STR_EMPTY THEN 0 ELSE km

\* acerhdf_check_hardware.  present: none of the three DMI strings is NULL;
\* vendor, product, version: what the DMI reports.  The result is the return
\* value and what the function leaves in kernelmode, samples and ctrl_cfg.
acerhdf_check_hardware(present, vendor, product, version) ==
    LET ver == IF force_bios # STR_EMPTY THEN force_bios ELSE version
        prod == IF force_product # STR_EMPTY THEN force_product ELSE product
        i == find_bios(vendor, prod, ver, 1)
    IN  IF ~present
        THEN [ret |-> -EINVAL, kernelmode |-> kernelmode,
              samples |-> samples, ctrl_cfg |-> ctrl_cfg]
        ELSE IF list_supported # 0
        THEN [ret |-> -ECANCELED, kernelmode |-> kernelmode,
              samples |-> samples, ctrl_cfg |-> ctrl_cfg]
        ELSE IF i = 0
        THEN [ret |-> -EINVAL, kernelmode |-> forced_kernelmode(kernelmode),
              samples |-> ZeroRing, ctrl_cfg |-> ctrl_cfg]
        ELSE [ret |-> 0, kernelmode |-> forced_kernelmode(kernelmode),
              samples |-> ZeroRing,
              ctrl_cfg |-> [fanreg |-> bios_tbl[i].fanreg,
                            tempreg |-> bios_tbl[i].tempreg,
                            cmd |-> bios_tbl[i].cmd,
                            mcmd_enable |-> bios_tbl[i].mcmd_enable]]

\* an entry of `regs': a call into the host's driver core or thermal core.
\* arg is "dev" for a registered object and "ERR_PTR" for an error pointer.
HostCall(call, res, arg) == [call |-> call, res |-> res, arg |-> arg]

\* acerhdf_register_platform.  The error of platform_driver_register and of
\* platform_device_add is the host's; -ENOMEM stands for every such value.
acerhdf_register_platform(fail) ==
    IF fail = "driver"
    THEN [ret |-> -ENOMEM, calls |-> << >>]
    ELSE IF fail = "alloc"
    THEN [ret |-> -ENOMEM,
          calls |-> << HostCall("register", "platform_driver", "dev"),
                       HostCall("unregister", "platform_driver", "dev") >>]
    ELSE IF fail = "add"
    THEN [ret |-> -ENOMEM,
          calls |-> << HostCall("register", "platform_driver", "dev"),
                       HostCall("alloc", "platform_device", "dev"),
                       HostCall("put", "platform_device", "dev"),
                       HostCall("unregister", "platform_driver", "dev") >>]
    ELSE [ret |-> 0,
          calls |-> << HostCall("register", "platform_driver", "dev"),
                       HostCall("alloc", "platform_device", "dev"),
                       HostCall("register", "platform_device", "dev") >>]

\* acerhdf_unregister_platform
acerhdf_unregister_platform ==
    << HostCall("unregister", "platform_device", "dev"),
       HostCall("unregister", "platform_driver", "dev") >>

\* acerhdf_register_thermal, called with kernelmode km.  cl_dev and thz_dev
\* are what the function leaves in the two pointers: "NULL", "ERR_PTR" (the
\* host's IS_ERR value, which is not NULL) or "dev".
acerhdf_register_thermal(fail, km) ==
    LET delay == IF km # 0 THEN Mul1000(interval) ELSE 0
    IN  IF fail = "cooling"
        THEN [ret |-> -EINVAL, cl_dev |-> "ERR_PTR", thz_dev |-> "NULL",
              polling_delay |-> 0, calls |-> << >>]
        ELSE IF fail = "zone"
        THEN [ret |-> -EINVAL, cl_dev |-> "dev", thz_dev |-> "ERR_PTR",
              polling_delay |-> 0,
              calls |-> << HostCall("register", "cooling_device", "dev") >>]
        ELSE [ret |-> IF fail = "governor" THEN -EINVAL ELSE 0,
              cl_dev |-> "dev", thz_dev |-> "dev", polling_delay |-> delay,
              calls |-> << HostCall("register", "cooling_device", "dev"),
                           HostCall("register", "thermal_zone", "dev") >>]

\* acerhdf_unregister_thermal with cl_dev = cl and thz_dev = thz: each
\* pointer that is not NULL is handed to the host, then set to NULL
acerhdf_unregister_thermal(cl, thz) ==
    (IF cl # "NULL"
     THEN << HostCall("unregister", "cooling_device", cl) >> ELSE << >>)
    \o (IF thz # "NULL"
        THEN << HostCall("unregister", "thermal_zone", thz) >> ELSE << >>)

\* acerhdf_init.  vendor, product, version: the DMI strings; fail: where the
\* host makes init fail, if init gets that far.
acerhdf_init(vendor, product, version, fail) ==
    LET hw == acerhdf_check_hardware(fail # "dmi", vendor, product, version)
        pf == acerhdf_register_platform(fail)
        th == acerhdf_register_thermal(fail, hw.kernelmode)
        ret == IF hw.ret # 0 THEN hw.ret
               ELSE IF pf.ret # 0 THEN pf.ret
               ELSE th.ret
        calls == IF hw.ret # 0 THEN << >>
                 ELSE IF pf.ret # 0 THEN pf.calls
                 ELSE IF th.ret # 0
                 THEN pf.calls \o th.calls
                      \o acerhdf_unregister_thermal(th.cl_dev, th.thz_dev)
                      \o acerhdf_unregister_platform
                 ELSE pf.calls \o th.calls
    IN  /\ phase = "loaded"
        /\ phase' = IF ret = 0 THEN "running" ELSE "failed"
        /\ UNCHANGED inflight
        /\ kernelmode' = hw.kernelmode
        /\ samples' = hw.samples
        /\ ctrl_cfg' = hw.ctrl_cfg
        /\ cl_dev' = (ret = 0 /\ th.cl_dev # "NULL")
        /\ thz_dev' = (ret = 0 /\ th.thz_dev # "NULL")
        /\ polling_delay' = IF ret = 0 THEN th.polling_delay ELSE 0
        /\ regs' = regs \o calls
        /\ last' = Call("init",
                        [vendor |-> vendor, product |-> product,
                         version |-> version, fail |-> fail],
                        kernelmode, ret, << hw.ret >>, 0, << >>, FALSE)
        /\ trace' = << >>
        /\ UNCHANGED << interval, fanon, fanoff, current_sample, fanstate,
                        prev_interval, list_supported, force_bios,
                        force_product >>

\* acerhdf_init on the machine of the table, the host refusing nothing
acerhdf_init_supported == acerhdf_init(STR_ACER, STR_PH517, STR_V106, "none")

\* acerhdf_exit: acerhdf_change_fanstate(5), then both unregisters
\* (acerhdf_unregister_thermal sets cl_dev and thz_dev to NULL)
acerhdf_exit(wOk) ==
    /\ phase = "running"
    /\ phase' = "exited"
    /\ UNCHANGED inflight
    /\ fanstate' = BIOS_FAN_STATE
    /\ cl_dev' = FALSE
    /\ thz_dev' = FALSE
    /\ regs' = regs
               \o acerhdf_unregister_thermal(IF cl_dev THEN "dev" ELSE "NULL",
                                             IF thz_dev THEN "dev" ELSE "NULL")
               \o acerhdf_unregister_platform
    /\ last' = Call("exit", NoOut, kernelmode, 0, NoOut, 0,
                    << BIOS_FAN_STATE >>, ~wOk)
    /\ UNCHANGED << kernelmode, interval, fanon, fanoff, samples,
                    current_sample, prev_interval, polling_delay, trace,
                    list_supported, force_bios, force_product, ctrl_cfg >>

\* the first statement of acerhdf_exit: acerhdf_change_fanstate(5).  The
\* cooling device and the zone are still registered, and kernelmode is as
\* it was.
acerhdf_exit_change_fanstate(wOk) ==
    /\ phase = "running"
    /\ phase' = "exiting"
    /\ UNCHANGED inflight
    /\ fanstate' = BIOS_FAN_STATE
    /\ last' = Call("exit", NoOut, kernelmode, 0, NoOut, 0,
                    << BIOS_FAN_STATE >>, ~wOk)
    /\ UNCHANGED << kernelmode, interval, fanon, fanoff, samples,
                    current_sample, prev_interval, polling_delay, trace,
                    thz_dev, cl_dev, list_supported, force_bios,
                    force_product, ctrl_cfg, regs >>

\* the rest of acerhdf_exit: acerhdf_unregister_thermal and
\* acerhdf_unregister_platform
acerhdf_exit_unregister ==
    /\ phase = "exiting"
    /\ phase' = "exited"
    /\ UNCHANGED inflight
    /\ cl_dev' = FALSE
    /\ thz_dev' = FALSE
    /\ regs' = regs
               \o acerhdf_unregister_thermal(IF cl_dev THEN "dev" ELSE "NULL",
                                             IF thz_dev THEN "dev" ELSE "NULL")
               \o acerhdf_unregister_platform
    /\ last' = Call("exit_unregister", NoOut, kernelmode, 0, NoOut, 0,
                    << >>, FALSE)
    /\ UNCHANGED << kernelmode, interval, fanon, fanoff, samples,
                    current_sample, fanstate, prev_interval, polling_delay,
                    trace, list_supported, force_bios, force_product,
                    ctrl_cfg >>

----------------------------------------------------------------------------
(* Cooling-device callback: the control loop *)

\* new_state letting a higher request of the governor through
new_state_requested(state, cur_temp) ==
    IF state > fan_schedule(cur_temp) THEN state ELSE fan_schedule(cur_temp)

\* lines 457-475: every branch of the table assigns `state', so the value
\* the governor asked for is overwritten before it is ever read
new_state(state, cur_temp) == fan_schedule(cur_temp)

\* tick_err that also gives up at the critical temperature
tick_err_crit(tOk, fOk, cur_temp) ==
    ~tOk \/ ~fOk \/ cur_temp >= ACERHDF_TEMP_CRIT

\* lines 437 and 449: the two tests that send a tick to err_out.  Both look
\* at the result of an EC read; the averaged temperature is part of neither.
tick_err(tOk, fOk, cur_temp) == ~tOk \/ ~fOk

\* What acerhdf_set_cur_state(cdev, state) does in the current state.
\* tOk / t: whether ec_read(tempreg) succeeds and what it reads; fOk: whether
\* ec_read(fanreg) succeeds; wOk: whether the ec_write succeeds (its result
\* is dropped, line 238).  A failed temperature read leaves
\* samples[current_sample] as it was (line 213 returns before line 216).
\* `sample' is what the tick adds to the trace: nothing in BIOS mode.
set_cur_state_effect(state, tOk, t, fOk, wOk) ==
    IF tick_is_noop
    THEN [samples |-> samples, current_sample |-> current_sample,
          fanstate |-> fanstate, kernelmode |-> kernelmode,
          polling_delay |-> polling_delay, ret |-> 0, out |-> NoOut,
          reads |-> 0, writes |-> << >>, ecfail |-> FALSE, sample |-> << >>]
    ELSE LET smp == IF tOk THEN [samples EXCEPT ![current_sample] = t]
                    ELSE samples
             cur_temp == smoothed(smp)
             new == new_state(state, cur_temp)
             rev == acerhdf_revert_to_bios_mode
         IN  IF tick_err(tOk, fOk, cur_temp)
             THEN [samples |-> smp,
                   current_sample |-> next_sample(current_sample),
                   fanstate |-> rev.fanstate, kernelmode |-> rev.kernelmode,
                   polling_delay |-> rev.polling_delay, ret |-> -EINVAL,
                   out |-> NoOut, reads |-> IF tOk THEN 2 ELSE 1,
                   writes |-> rev.writes, ecfail |-> TRUE, sample |-> << -1 >>]
             ELSE [samples |-> smp,
                   current_sample |-> next_sample(current_sample),
                   fanstate |-> new, kernelmode |-> kernelmode,
                   polling_delay |-> polling_delay, ret |-> 0,
                   out |-> << cur_temp >>, reads |-> 2, writes |-> << new >>,
                   ecfail |-> ~wOk, sample |-> << t >>]

\* acerhdf_set_cur_state(cdev, state), the cooling device's callback.  The
\* host may call it for as long as the cooling device is registered.
acerhdf_set_cur_state(state, tOk, t, fOk, wOk) ==
    /\ phase \in {"running", "exiting"}
    /\ UNCHANGED << load_vars, inflight >>
    /\ \E e \in {set_cur_state_effect(state, tOk, t, fOk, wOk)} :
        /\ samples' = e.samples
        /\ current_sample' = e.current_sample
        /\ fanstate' = e.fanstate
        /\ kernelmode' = e.kernelmode
        /\ polling_delay' = e.polling_delay
        /\ last' = Call("set_cur_state", state, kernelmode, e.ret, e.out,
                        e.reads, e.writes, e.ecfail)
        /\ trace' = trace \o e.sample
    /\ UNCHANGED << phase, interval, fanon, fanoff, prev_interval,
                    thz_dev, cl_dev >>

\* acerhdf_set_cur_state up to and including the test of line 429: in BIOS
\* mode the call returns 0 at once, in KERNEL mode it goes on
set_cur_state_enter(state) ==
    /\ phase = "running"
    /\ inflight.pc = "idle"
    /\ IF tick_is_noop
       THEN /\ last' = Call("set_cur_state", state, kernelmode, 0, NoOut, 0,
                            << >>, FALSE)
            /\ UNCHANGED inflight
       ELSE /\ inflight' = [pc |-> "read", state |-> state,
                            kmode |-> kernelmode, cur_temp |-> 0, new |-> 0]
            /\ UNCHANGED last
    /\ UNCHANGED << phase, kernelmode, interval, fanon, fanoff, samples,
                    current_sample, fanstate, prev_interval, thz_dev, cl_dev,
                    polling_delay, trace, load_vars >>

\* lines 431-477 of a tick under way: the temperature read into the ring,
\* the cursor, the average, the fan-state read and the table.  A failed read
\* ends the call through err_out; kernelmode is not tested again.
set_cur_state_read(tOk, t, fOk) ==
    /\ phase = "running"
    /\ inflight.pc = "read"
    /\ LET smp == IF tOk THEN [samples EXCEPT ![current_sample] = t]
                  ELSE samples
           cur_temp == smoothed(smp)
           rev == acerhdf_revert_to_bios_mode
       IN  /\ samples' = smp
           /\ current_sample' = next_sample(current_sample)
           /\ IF tick_err(tOk, fOk, cur_temp)
              THEN /\ fanstate' = rev.fanstate
                   /\ kernelmode' = rev.kernelmode
                   /\ polling_delay' = rev.polling_delay
                   /\ last' = Call("set_cur_state", inflight.state,
                                   inflight.kmode, -EINVAL, NoOut,
                                   IF tOk THEN 2 ELSE 1, rev.writes, TRUE)
                   /\ trace' = Append(trace, -1)
                   /\ inflight' = NO_TICK
              ELSE /\ inflight' = [inflight EXCEPT
                                     !.pc = "write",
                                     !.cur_temp = cur_temp,
                                     !.new = new_state(inflight.state,
                                                       cur_temp)]
                   /\ trace' = Append(trace, t)
                   /\ UNCHANGED << fanstate, kernelmode, polling_delay,
                                   last >>
    /\ UNCHANGED << phase, interval, fanon, fanoff, prev_interval, thz_dev,
                    cl_dev, load_vars >>

\* lines 479-480 of a tick under way: acerhdf_change_fanstate(state) and
\* return 0
set_cur_state_write(wOk) ==
    /\ phase = "running"
    /\ inflight.pc = "write"
    /\ fanstate' = inflight.new
    /\ last' = Call("set_cur_state", inflight.state, inflight.kmode, 0,
                    << inflight.cur_temp >>, 2, << inflight.new >>, ~wOk)
    /\ inflight' = NO_TICK
    /\ UNCHANGED << phase, kernelmode, interval, fanon, fanoff, samples,
                    current_sample, prev_interval, thz_dev, cl_dev,
                    polling_delay, trace, load_vars >>

----------------------------------------------------------------------------
(* Thermal-zone callbacks *)

\* acerhdf_get_ec_temp: acerhdf_check_param, then the EC temperature read.
\* The history record keeps interval and fanon as they were on entry.
acerhdf_get_ec_temp(tOk, t) ==
    LET cp == acerhdf_check_param
    IN  /\ phase = "running"
        /\ UNCHANGED << load_vars, inflight >>
        /\ fanon' = cp.fanon
        /\ interval' = cp.interval
        /\ polling_delay' = cp.polling_delay
        /\ prev_interval' = cp.prev_interval
        /\ last' = Call("get_temp", << interval, fanon >>, kernelmode,
                        IF tOk THEN 0 ELSE -EINVAL,
                        IF tOk THEN << t >> ELSE NoOut, 1, << >>, ~tOk)
        /\ UNCHANGED << phase, kernelmode, fanoff, samples, current_sample,
                        fanstate, thz_dev, cl_dev, trace >>

\* acerhdf_get_mode: ENABLED when kernelmode is non-zero
acerhdf_get_mode ==
    /\ phase = "running"
    /\ UNCHANGED << load_vars, inflight >>
    /\ last' = Call("get_mode", NoOut, kernelmode, 0,
                    << IF kernelmode # 0 THEN THERMAL_DEVICE_ENABLED
                       ELSE THERMAL_DEVICE_DISABLED >>, 0, << >>, FALSE)
    /\ UNCHANGED << phase, kernelmode, interval, fanon, fanoff, samples,
                    current_sample, fanstate, prev_interval, thz_dev, cl_dev,
                    polling_delay, trace >>

\* set_mode_branch taking the revert branch whenever the mode is KERNEL
set_mode_branch_toggle(mode) ==
    IF kernelmode # 0 THEN "revert"
    ELSE IF mode = THERMAL_DEVICE_ENABLED /\ kernelmode = 0 THEN "enable"
    ELSE "none"

\* lines 341-344: which of the two branches acerhdf_set_mode takes, if any
set_mode_branch(mode) ==
    IF mode = THERMAL_DEVICE_DISABLED /\ kernelmode # 0 THEN "revert"
    ELSE IF mode = THERMAL_DEVICE_ENABLED /\ kernelmode = 0 THEN "enable"
    ELSE "none"

\* acerhdf_set_mode(thermal, mode)
acerhdf_set_mode(mode, wOk) ==
    /\ phase = "running"
    /\ UNCHANGED << load_vars, inflight >>
    /\ IF set_mode_branch(mode) = "revert"
       THEN LET rev == acerhdf_revert_to_bios_mode
            IN  /\ fanstate' = rev.fanstate
                /\ kernelmode' = rev.kernelmode
                /\ polling_delay' = rev.polling_delay
                /\ last' = Call("set_mode", mode, kernelmode, 0, NoOut, 0,
                                rev.writes, ~wOk)
       ELSE IF set_mode_branch(mode) = "enable"
       THEN LET en == acerhdf_enable_kernelmode
            IN  /\ kernelmode' = en.kernelmode
                /\ polling_delay' = en.polling_delay
                /\ last' = Call("set_mode", mode, kernelmode, 0, NoOut, 0,
                                << >>, FALSE)
                /\ UNCHANGED fanstate
       ELSE /\ last' = Call("set_mode", mode, kernelmode, 0, NoOut, 0,
                            << >>, FALSE)
            /\ UNCHANGED << fanstate, kernelmode, polling_delay >>
    /\ UNCHANGED << phase, interval, fanon, fanoff, samples, current_sample,
                    prev_interval, thz_dev, cl_dev, trace >>

\* acerhdf_get_trip_temp(thermal, trip)
acerhdf_get_trip_temp(trip) ==
    /\ phase = "running"
    /\ UNCHANGED << load_vars, inflight >>
    /\ last' = Call("get_trip_temp", trip, kernelmode,
                    IF trip \in {0, 1} THEN 0 ELSE -EINVAL,
                    IF trip = 0 THEN << fanon >>
                    ELSE IF trip = 1 THEN << ACERHDF_TEMP_CRIT >>
                    ELSE NoOut, 0, << >>, FALSE)
    /\ UNCHANGED << phase, kernelmode, interval, fanon, fanoff, samples,
                    current_sample, fanstate, prev_interval, thz_dev, cl_dev,
                    polling_delay, trace >>

\* acerhdf_get_trip_hyst(thermal, trip)
acerhdf_get_trip_hyst(trip) ==
    /\ phase = "running"
    /\ UNCHANGED << load_vars, inflight >>
    /\ last' = Call("get_trip_hyst", trip, kernelmode,
                    IF trip = 0 THEN 0 ELSE -EINVAL,
                    IF trip = 0 THEN << SignedDiff(fanon, fanoff) >>
                    ELSE NoOut, 0, << >>, FALSE)
    /\ UNCHANGED << phase, kernelmode, interval, fanon, fanoff, samples,
                    current_sample, fanstate, prev_interval, thz_dev, cl_dev,
                    polling_delay, trace >>

\* acerhdf_get_crit_temp(thermal, temperature)
acerhdf_get_crit_temp ==
    /\ phase = "running"
    /\ UNCHANGED << load_vars, inflight >>
    /\ last' = Call("get_crit_temp", NoOut, kernelmode, 0,
                    << ACERHDF_TEMP_CRIT >>, 0, << >>, FALSE)
    /\ UNCHANGED << phase, kernelmode, interval, fanon, fanoff, samples,
                    current_sample, fanstate, prev_interval, thz_dev, cl_dev,
                    polling_delay, trace >>

----------------------------------------------------------------------------
(* Power management and the writable module parameters *)

\* acerhdf_suspend writing 5 in either mode
acerhdf_suspend_always(wOk) ==
    /\ phase = "running"
    /\ UNCHANGED << load_vars, inflight >>
    /\ fanstate' = BIOS_FAN_STATE
    /\ last' = Call("suspend", NoOut, kernelmode, 0, NoOut, 0,
                    << BIOS_FAN_STATE >>, ~wOk)
    /\ UNCHANGED << phase, kernelmode, interval, fanon, fanoff, samples,
                    current_sample, prev_interval, thz_dev, cl_dev,
                    polling_delay, trace >>

\* acerhdf_suspend: if (kernelmode) acerhdf_change_fanstate(5)
acerhdf_suspend(wOk) ==
    /\ phase = "running"
    /\ UNCHANGED << load_vars, inflight >>
    /\ IF kernelmode # 0
       THEN /\ fanstate' = BIOS_FAN_STATE
            /\ last' = Call("suspend", NoOut, kernelmode, 0, NoOut, 0,
                            << BIOS_FAN_STATE >>, ~wOk)
       ELSE /\ last' = Call("suspend", NoOut, kernelmode, 0, NoOut, 0,
                            << >>, FALSE)
            /\ UNCHANGED fanstate
    /\ UNCHANGED << phase, kernelmode, interval, fanon, fanoff, samples,
                    current_sample, prev_interval, thz_dev, cl_dev,
                    polling_delay, trace >>

\* module_param(interval, uint, 0600): a user write
write_interval(v) ==
    /\ phase = "running"
    /\ UNCHANGED << load_vars, inflight >>
    /\ interval' = v
    /\ last' = Call("write_interval", v, kernelmode, 0, NoOut, 0, << >>, FALSE)
    /\ UNCHANGED << phase, kernelmode, fanon, fanoff, samples, current_sample,
                    fanstate, prev_interval, thz_dev, cl_dev, polling_delay,
                    trace >>

\* module_param(fanon, uint, 0600): a user write
write_fanon(v) ==
    /\ phase = "running"
    /\ UNCHANGED << load_vars, inflight >>
    /\ fanon' = v
    /\ last' = Call("write_fanon", v, kernelmode, 0, NoOut, 0, << >>, FALSE)
    /\ UNCHANGED << phase, kernelmode, interval, fanoff, samples,
                    current_sample, fanstate, prev_interval, thz_dev, cl_dev,
                    polling_delay, trace >>

\* module_param(fanoff, uint, 0600): a user write
write_fanoff(v) ==
    /\ phase = "running"
    /\ UNCHANGED << load_vars, inflight >>
    /\ fanoff' = v
    /\ last' = Call("write_fanoff", v, kernelmode, 0, NoOut, 0, << >>, FALSE)
    /\ UNCHANGED << phase, kernelmode, interval, fanon, samples,
                    current_sample, fanstate, prev_interval, thz_dev, cl_dev,
                    polling_delay, trace >>

----------------------------------------------------------------------------
(* Specifications *)

\* a control-loop tick, at most `max' of them in KERNEL mode per behaviour
Tick(max, temps) ==
    \E state \in ReqStates, tOk \in BOOLEAN, t \in temps,
       fOk \in BOOLEAN, wOk \in BOOLEAN :
        /\ ~tick_is_noop => Len(trace) < max
        /\ acerhdf_set_cur_state(state, tOk, t, fOk, wOk)

\* a control-loop tick of a run in which the EC reports the same temperature
\* at every tick
SteadyTick(max, temps) ==
    \E tOk \in BOOLEAN, t \in temps, fOk \in BOOLEAN :
        /\ ~tick_is_noop => Len(trace) < max
        /\ IF trace = << >> THEN TRUE ELSE t = trace[Len(trace)]
        /\ acerhdf_set_cur_state(0, tOk, t, fOk, TRUE)

Next ==
    \/ acerhdf_init_supported
    \/ Tick(MaxTicks, TempVals)
    \/ \E tOk \in BOOLEAN, t \in TempVals : acerhdf_get_ec_temp(tOk, t)
    \/ acerhdf_get_mode
    \/ \E mode \in {THERMAL_DEVICE_DISABLED, THERMAL_DEVICE_ENABLED},
          wOk \in BOOLEAN : acerhdf_set_mode(mode, wOk)
    \/ \E trip \in TripIndices : acerhdf_get_trip_temp(trip)
    \/ \E trip \in TripIndices : acerhdf_get_trip_hyst(trip)
    \/ \E wOk \in BOOLEAN : acerhdf_suspend(wOk)
    \/ \E v \in UserIntervals : write_interval(v)
    \/ \E v \in UserFanons : write_fanon(v)
    \/ \E v \in UserFanoffs : write_fanoff(v)
    \/ \E wOk \in BOOLEAN : acerhdf_exit(wOk)

\* every callback, parameter write, init and exit, in any order
Spec == Init /\ [][Next]_vars

\* the module loaded with its default parameters (kernelmode 1, interval 1,
\* nothing forced)
InitDefault == Init /\ kernelmode = 1 /\ interval = 1

NextRing ==
    \/ acerhdf_init_supported
    \/ Tick(MaxRingTicks, RingTemps)

\* init, then control-loop ticks only, with readings drawn from RingTemps
SpecRing == InitDefault /\ [][NextRing]_vars

NextSched ==
    \/ acerhdf_init_supported
    \/ SteadyTick(MaxSchedTicks, SchedTemps)

\* init, then control-loop ticks only, the EC reporting one temperature of
\* 0..255 throughout: the tenth tick smooths to that temperature
SpecSched == InitDefault /\ [][NextSched]_vars

NextInit ==
    \/ \E vendor \in DmiVendors, product \in DmiProducts,
          version \in DmiVersions, fail \in InitFailPoints :
           acerhdf_init(vendor, product, version, fail)
    \/ Tick(MaxInitTicks, TempVals)
    \/ \E mode \in {THERMAL_DEVICE_DISABLED, THERMAL_DEVICE_ENABLED},
          wOk \in BOOLEAN : acerhdf_set_mode(mode, wOk)

\* any load-time parameters, any identity and any failure of the host during
\* init; after a successful init, control-loop ticks and set_mode
SpecInit == InitLoad /\ [][NextInit]_vars

NextCrit ==
    \/ acerhdf_init_supported
    \/ SteadyTick(MaxCritTicks, SchedTemps)
    \/ acerhdf_get_crit_temp
    \/ \E trip \in TripIndices : acerhdf_get_trip_temp(trip)

\* init, control-loop ticks with one reading of 0..255 throughout, and the
\* host asking for the critical temperature and the trip temperatures
SpecCrit == InitDefault /\ [][NextCrit]_vars

NextExit ==
    \/ acerhdf_init_supported
    \/ Tick(MaxExitTicks, RingTemps)
    \/ \E wOk \in BOOLEAN : acerhdf_exit_change_fanstate(wOk)
    \/ acerhdf_exit_unregister

\* init, control-loop ticks, and acerhdf_exit in its two steps: the cooling
\* device stays registered, and the host may tick, until the second step
SpecExit == InitDefault /\ [][NextExit]_vars

NextRace ==
    \/ acerhdf_init_supported
    \/ \E state \in ReqStates :
          /\ ~tick_is_noop => Len(trace) < MaxRaceTicks
          /\ set_cur_state_enter(state)
    \/ \E tOk \in BOOLEAN, t \in RingTemps, fOk \in BOOLEAN :
          set_cur_state_read(tOk, t, fOk)
    \/ \E wOk \in BOOLEAN : set_cur_state_write(wOk)
    \/ \E mode \in {THERMAL_DEVICE_DISABLED, THERMAL_DEVICE_ENABLED},
          wOk \in BOOLEAN : acerhdf_set_mode(mode, wOk)

\* init, then control-loop ticks taken in three steps, and set_mode, which
\* the host may call between any two steps of a tick
SpecRace == InitDefault /\ [][NextRace]_vars

----------------------------------------------------------------------------
(* Properties *)

IsTick == last.op = "set_cur_state"
KernelTick == IsTick /\ last.kmode # 0
BiosTick == IsTick /\ last.kmode = 0
IsPoll == last.op = "get_temp"
NoFailedTick == \A i \in 1 .. Len(trace) : trace[i] >= 0

\* C1 (as claimed): a KERNEL-mode tick in which any EC access failed - the
\* temperature read, the fan-state read or the fan-register write - returned
\* an error and left the mode BIOS.
C1_AnyEcFailureFallsBack ==
    (KernelTick /\ last.ecfail) => (last.ret # 0 /\ kernelmode = 0)

\* C2: a tick made in BIOS mode returns 0, reads and writes nothing on the
\* EC, and leaves the ring, the cursor, fanstate, the mode and the polling
\* delay as they were.
C2_BiosTickDoesNothing ==
    [][(last'.op = "set_cur_state" /\ kernelmode = 0)
        => /\ last'.ret = 0
           /\ last'.reads = 0
           /\ last'.writes = << >>
           /\ UNCHANGED << samples, current_sample, fanstate, kernelmode,
                           polling_delay >>]_vars

\* a BIOS-mode tick that follows a fallback
C2_Witness == BiosTick /\ trace # << >> /\ trace[Len(trace)] = -1

\* C3: a KERNEL-mode tick that failed (a failed temperature or fan-state
\* read) wrote the fan register exactly once, the value 5, and left the
\* polling delay 0.
C3_FailedTickWritesFive ==
    (KernelTick /\ last.ret # 0)
        => /\ last.writes = << 5 >>
           /\ polling_delay = 0

\* two good ticks, then a tick whose temperature read failed
C3_Witness ==
    KernelTick /\ last.ret # 0 /\ last.reads = 1 /\ trace = << 70, 70, -1 >>

\* the schedule table as the claim states it
C4_Table(t) ==
    CASE t \in 0 .. 39 -> 3
      [] t \in 40 .. 44 -> 4
      [] t \in 45 .. 47 -> 5
      [] t \in 48 .. 49 -> 6
      [] t \in 50 .. 54 -> 7
      [] t \in 55 .. 59 -> 8
      [] t \in 60 .. 64 -> 9
      [] t \in 65 .. 69 -> 10
      [] OTHER -> 11

C4_Clamped(t) == IF C4_Table(t) >= 4 THEN C4_Table(t) ELSE 4

\* C4: a successful KERNEL-mode tick that smoothed to t wrote the table's
\* state for t clamped to at least 4; the written state is in 4..11, no
\* lower temperature schedules a higher state, and 39, 40, 47, 48, 69, 70
\* give 4, 4, 5, 6, 10, 11.
C4_TickWritesSchedule ==
    /\ (KernelTick /\ last.ret = 0)
          => LET t == last.out[1]
                 w == last.writes[1]
             IN  /\ Len(last.out) = 1 /\ Len(last.writes) = 1
                 /\ t \in 0 .. U8_MAX
                 /\ w = C4_Clamped(t)
                 /\ fanstate = w
                 /\ 4 <= w /\ w <= 11
                 /\ \A u \in 0 .. t : fan_schedule(u) <= w
    /\ \A t \in 0 .. U8_MAX : fan_schedule(t) = C4_Clamped(t)
    /\ << fan_schedule(39), fan_schedule(40), fan_schedule(47),
          fan_schedule(48), fan_schedule(69), fan_schedule(70) >>
           = << 4, 4, 5, 6, 10, 11 >>

\* the tenth tick of a run at 39 degrees: the table says 3, the tick wrote 4
C4_Witness ==
    KernelTick /\ last.ret = 0 /\ last.out = << 39 >> /\ last.writes = << 4 >>

RECURSIVE C5_SumLast(_, _)
\* the sum of the last n entries of sequence r
C5_SumLast(r, n) ==
    IF n = 0 THEN 0 ELSE r[Len(r)] + C5_SumLast(SubSeq(r, 1, Len(r) - 1), n - 1)

C5_Min(a, b) == IF a < b THEN a ELSE b

\* C5: after k successful KERNEL-mode ticks from init with readings r1..rk,
\* tick k smoothed to floor((sum of the last min(k,10) readings) / 10); at a
\* steady 70 the first tick wrote 4 and the tenth wrote 11.
C5_ColdStartSmoothing ==
    (KernelTick /\ last.ret = 0 /\ NoFailedTick)
        => /\ last.out =
                << C5_SumLast(trace, C5_Min(Len(trace), 10)) \div 10 >>
           /\ trace = << 70 >> => last.writes = << 4 >>
           /\ trace = [i \in 1 .. 10 |-> 70] => last.writes = << 11 >>

\* eleven good ticks, the first reading 255 (overwritten by the eleventh),
\* the rest 70
C5_Witness ==
    /\ KernelTick /\ last.ret = 0
    /\ trace = [i \in 1 .. 11 |-> IF i = 1 THEN 255 ELSE 70]
    /\ last.out = << 70 >>

\* C6: set_mode(DISABLED) in KERNEL mode left the mode BIOS, wrote 5 once and
\* set the polling delay to 0; set_mode(ENABLED) in BIOS mode left the mode
\* KERNEL, set the polling delay to interval * 1000 and wrote nothing;
\* get_mode answered ENABLED exactly when the mode is KERNEL.
C6_SetModeAndGetMode ==
    /\ (last.op = "set_mode" /\ last.arg = "DISABLED" /\ last.kmode # 0)
          => /\ kernelmode = 0
             /\ last.writes = << 5 >>
             /\ polling_delay = 0
    /\ (last.op = "set_mode" /\ last.arg = "ENABLED" /\ last.kmode = 0)
          => /\ kernelmode # 0
             /\ polling_delay = interval * 1000
             /\ last.writes = << >>
    /\ last.op = "get_mode"
          => (last.out = << "ENABLED" >> <=> kernelmode # 0)

\* the host re-enabled the loop after the user had written a new interval
C6_Witness ==
    /\ last.op = "set_mode" /\ last.arg = "ENABLED" /\ last.kmode = 0
    /\ interval # prev_interval /\ prev_interval # 0

\* C7: from BIOS mode only set_mode(ENABLED) makes the mode KERNEL, and no
\* call other than module exit writes the fan register.
C7_BiosIsSticky ==
    [][kernelmode = 0
        => /\ kernelmode' # 0
                => (last'.op = "set_mode" /\ last'.arg = "ENABLED")
           /\ last'.writes # << >> => last'.op = "exit"]_vars

\* a suspend in BIOS mode, after a fallback
C7_Witness ==
    /\ last.op = "suspend" /\ last.kmode = 0 /\ kernelmode = 0
    /\ trace # << >> /\ trace[Len(trace)] = -1

\* C8: while the thermal zone is registered, BIOS mode has polling delay 0.
C8_BiosPollingIsZero ==
    (thz_dev /\ kernelmode = 0) => polling_delay = 0

\* a poll in BIOS mode that saw an interval the user had changed
C8_Witness ==
    /\ thz_dev /\ kernelmode = 0 /\ IsPoll
    /\ interval # prev_interval /\ prev_interval # 0

\* C9: after a get_temp poll, fanon <= 80000.
C9_FanonClampedAfterPoll ==
    IsPoll => fanon <= 80000

\* a poll in BIOS mode whose EC read failed and that found fanon above 80000
C9_Witness ==
    /\ IsPoll /\ last.kmode = 0 /\ last.ret # 0
    /\ last.arg[2] > 80000 /\ fanon = 80000

\* C10: after a get_temp poll in KERNEL mode, interval <= 15.
C10_IntervalClampedAfterKernelPoll ==
    (IsPoll /\ last.kmode # 0) => interval <= 15

\* a poll in KERNEL mode that found interval above 15
C10_Witness ==
    /\ IsPoll /\ last.kmode # 0
    /\ last.arg[1] > 15 /\ interval = 15

\* C11 (as claimed): in every state after a successful init the zone's
\* polling delay is at most 15000 ms, whatever `interval' was given at load
\* or written at runtime.
C11_PollingAtMostFifteenSeconds ==
    phase = "running" => polling_delay <= Mul1000(ACERHDF_MAX_INTERVAL)

\* C12: get_trip_temp answers fanon for trip 0 and 89 for trip 1,
\* get_trip_hyst answers the signed difference fanon - fanoff for trip 0, and
\* every other index is an error that produces no value.
C12_TripAdvertisement ==
    /\ last.op = "get_trip_temp" =>
          IF last.arg = 0 THEN last.ret = 0 /\ last.out = << fanon >>
          ELSE IF last.arg = 1 THEN last.ret = 0 /\ last.out = << 89 >>
          ELSE last.ret # 0 /\ last.out = << >>
    /\ last.op = "get_trip_hyst" =>
          IF last.arg = 0 THEN last.ret = 0 /\ last.out = << fanon - fanoff >>
          ELSE last.ret # 0 /\ last.out = << >>

C12_Witness ==
    /\ last.op = "get_trip_hyst" /\ last.arg = 0
    /\ fanon = 60 /\ fanoff = 40 /\ last.out = << 20 >>

\* C17: a set_mode(ENABLED) that directly follows a set_mode(ENABLED) changes
\* nothing: the mode, the polling delay, the ring, the cursor and the fan
\* state stay as the first call left them, nothing is written to the fan
\* register, and the call returns 0.
C17_EnableTwiceIsEnableOnce ==
    [][(/\ last.op = "set_mode" /\ last.arg = THERMAL_DEVICE_ENABLED
        /\ last'.op = "set_mode" /\ last'.arg = THERMAL_DEVICE_ENABLED)
        => /\ last'.ret = 0
           /\ last'.writes = << >>
           /\ UNCHANGED << kernelmode, polling_delay, samples, current_sample,
                           fanstate, interval, fanon, fanoff, prev_interval,
                           thz_dev, cl_dev, phase >>]_vars

\* a second set_mode(ENABLED), the first having left BIOS mode
C17_Witness ==
    /\ last.op = "set_mode" /\ last.arg = THERMAL_DEVICE_ENABLED
    /\ last.kmode # 0 /\ kernelmode # 0
    /\ trace # << >> /\ trace[Len(trace)] = -1

\* C18: the ring cursor is always one of 0..9, and every KERNEL-mode tick,
\* a failing one too, moves it from c to (c + 1) mod 10.
C18_CursorAdvancesModTen ==
    /\ [](current_sample \in 0 .. 9)
    /\ [][(last'.op = "set_cur_state" /\ kernelmode # 0)
            => current_sample' = (current_sample + 1) % 10]_vars

\* the tenth tick failed and wrapped the cursor to 0
C18_Witness ==
    /\ KernelTick /\ last.ret # 0
    /\ Len(trace) = TEMPERATURE_SAMPLES /\ current_sample = 0

\* C16: the state the governor asks for has no influence on a tick.  From
\* any state, two ticks that meet the same EC results and differ only in the
\* requested state issue the same reads and writes, return the same result
\* and end in the same state.
C16_RequestedStateIgnored ==
    phase = "running" =>
        \A s1 \in ReqStates, s2 \in ReqStates, tOk \in BOOLEAN,
           t \in RingTemps, fOk \in BOOLEAN, wOk \in BOOLEAN :
            set_cur_state_effect(s1, tOk, t, fOk, wOk)
                = set_cur_state_effect(s2, tOk, t, fOk, wOk)

\* a tick asked for the highest state and wrote the lowest
C16_Witness ==
    /\ KernelTick /\ last.ret = 0
    /\ last.arg = MAX_STATE /\ last.writes = << MIN_FAN_SPEED >>

\* s starts with p
C13_StartsWith(s, p) == Len(s) >= Len(p) /\ SubSeq(s, 1, Len(p)) = p

\* C13: with list_supported unset and the three identity strings present,
\* the hardware check of init succeeded exactly when the vendor starts with
\* "Acer", the effective product with "Predator PH517-51" and the effective
\* version with "V1.06" (the forced string when one is given, else the
\* observed one); on success ctrl_cfg is the row of the table (fanreg 0x4f,
\* tempreg 0x58), on a miss init returned an error and ctrl_cfg is unset.
C13_IdentityMatch ==
    (last.op = "init" /\ list_supported = 0 /\ last.arg.fail # "dmi") =>
        LET product == IF force_product # << >> THEN force_product
                       ELSE last.arg.product
            version == IF force_bios # << >> THEN force_bios
                       ELSE last.arg.version
            match ==
                /\ C13_StartsWith(last.arg.vendor, << "A", "c", "e", "r" >>)
                /\ C13_StartsWith(product,
                       << "P", "r", "e", "d", "a", "t", "o", "r", " ",
                          "P", "H", "5", "1", "7", "-", "5", "1" >>)
                /\ C13_StartsWith(version, << "V", "1", ".", "0", "6" >>)
        IN  /\ (last.out = << 0 >>) <=> match
            /\ match => ctrl_cfg = [fanreg |-> 79, tempreg |-> 88,
                                    cmd |-> [cmd_off |-> 20, cmd_auto |-> 4],
                                    mcmd_enable |-> 1]
            /\ ~match => (last.ret # 0 /\ ctrl_cfg = CTRL_CFG_ZERO)

\* a longer vendor string and a forced version in place of an unsupported one
C13_Witness ==
    /\ last.op = "init" /\ last.ret = 0 /\ last.out = << 0 >>
    /\ last.arg.vendor = STR_ACER_INC
    /\ last.arg.version = STR_V105 /\ force_bios = STR_V106
    /\ ctrl_cfg.fanreg = 79 /\ ctrl_cfg.tempreg = 88

C14_Forced == force_bios # << >> \/ force_product # << >>

C15_Resources(log, call) ==
    LET sel == SelectSeq(log, LAMBDA c : c.call = call)
    IN  [i \in 1 .. Len(sel) |-> sel[i].res]

C15_Reverse(s) == [i \in 1 .. Len(s) |-> s[Len(s) + 1 - i]]

\* C15 (as claimed): when init returned an error, the resources that were
\* registered have been unregistered once each in the reverse of the order
\* of their registration, and nothing else was handed to an unregister; when
\* the hardware check failed, nothing was registered at all.
C15_UnwindInReverse ==
    (last.op = "init" /\ last.ret # 0) =>
        /\ C15_Resources(regs, "unregister")
             = C15_Reverse(C15_Resources(regs, "register"))
        /\ \A i \in 1 .. Len(regs) :
              regs[i].call = "unregister" => regs[i].arg = "dev"
        /\ last.out # << 0 >> => regs = << >>

\* C19 (as claimed): once acerhdf_exit has completed, the value last written
\* to the fan register is 5.
C19_LastWriteAfterExitIsFive ==
    phase = "exited" => fanstate = 5

\* C20: in KERNEL mode, whatever the EC reports as temperature (0..255), a
\* tick whose two EC reads succeed returns 0, leaves the mode KERNEL and
\* writes the state of the schedule for the smoothed temperature, also when
\* that is 89 or more.  get_crit_temp and trip 1 of get_trip_temp answer 89.
C20_NoCriticalReaction ==
    /\ (phase = "running" /\ kernelmode # 0) =>
          \A t \in 0 .. 255, wOk \in BOOLEAN :
              LET e == set_cur_state_effect(0, TRUE, t, TRUE, wOk)
              IN  /\ e.ret = 0
                  /\ e.kernelmode = kernelmode
                  /\ e.polling_delay = polling_delay
                  /\ e.writes = << C4_Clamped(e.out[1]) >>
    /\ last.op = "get_crit_temp" => (last.ret = 0 /\ last.out = << 89 >>)
    /\ (last.op = "get_trip_temp" /\ last.arg = 1) => last.out = << 89 >>

\* a tick at a smoothed temperature above the critical one
C20_Witness ==
    /\ KernelTick /\ last.ret = 0 /\ kernelmode # 0
    /\ last.out # << >> /\ last.out[1] >= 89
    /\ last.writes = << MAX_STATE >>

\* C22 (as claimed): right after a get_temp poll made in KERNEL mode, the
\* polling delay of the zone is interval * 1000 for the interval as the poll
\* left it, whatever writes to interval and changes of mode came before.
C22_PollingFollowsInterval ==
    (IsPoll /\ last.kmode # 0) => polling_delay = interval * 1000

\* C21 (as claimed): the module loaded in KERNEL mode, ticks and set_mode
\* calls interleaving freely: whenever no tick is under way and the mode is
\* BIOS, the value last written to the fan register is 5.
C21_RevertValueSurvivesRace ==
    (phase = "running" /\ inflight.pc = "idle" /\ kernelmode = 0)
        => fanstate = 5

============================================================================
